---------------------------- MODULE Spec2Model ----------------------------
(***************************************************************************)
(* Model of static/script.js: the resume form controller.                  *)
(*                                                                         *)
(* Text is a sequence of tokens (the empty string is << >>), so that string *)
(* concatenation is \o and the falsiness of '' is visible.  A JSON value is *)
(* a record whose single field names its type; a JSON object is a record   *)
(* of the properties the script reads, a missing property holding          *)
(* Undefined (what a JavaScript property read yields).                     *)
(***************************************************************************)
EXTENDS Integers, Sequences, FiniteSets, TLC

VARIABLES
    loaderDisplay,          \* loader.style.display
    formContainerDisplay,   \* formContainer.style.display
    resultsDisplay,         \* resultsDiv.style.display
    resultsHTML,            \* resultsDiv.innerHTML
    analyzeAnotherDisplay,  \* analyzeAnotherBtn.style.display
    resumeFiles,            \* resumeInput.files (names of the chosen files)
    fileNameDisplay,        \* fileNameDisplay.textContent
    pending,                \* submit handlers suspended at an await, oldest first
    posts,                  \* number of fetch('/analyze', POST) calls issued
    submits,                \* number of submit events handled
    last,                   \* what the latest settled submission received
    lastEvent               \* the handler that ran last

vars == <<loaderDisplay, formContainerDisplay, resultsDisplay, resultsHTML,
          analyzeAnotherDisplay, resumeFiles, fileNameDisplay,
          pending, posts, submits, last, lastEvent>>

-----------------------------------------------------------------------------
(* Bounds *)

MaxItems == 2

MaxSubmissions == 2

-----------------------------------------------------------------------------
(* JSON values as JavaScript sees them *)

Undefined == [undef |-> TRUE]

Null == [null |-> TRUE]

Num(n) == [num |-> n]

Str(s) == [str |-> s]

Arr(a) == [arr |-> a]

IsNum(v) == DOMAIN v = {"num"}

IsStr(v) == DOMAIN v = {"str"}

IsArr(v) == DOMAIN v = {"arr"}

\* JavaScript ToBoolean(v) = false
Falsy(v) == \/ v = Undefined
            \/ v = Null
            \/ (IsNum(v) /\ v.num = 0)
            \/ (IsStr(v) /\ v.str = << >>)

\* a || b
OrElse(a, b) == IF Falsy(a) THEN b ELSE a

RECURSIVE Join(_, _)
\* Array.prototype.join over an array of strings
Join(a, sep) == IF a = << >> THEN << >>
                ELSE IF Len(a) = 1 THEN a[1]
                ELSE a[1] \o sep \o Join(Tail(a), sep)

\* `${v}` in a template literal
Interpolate(v) == IF IsNum(v) THEN <<ToString(v.num)>>
                  ELSE IF IsStr(v) THEN v.str
                  ELSE IF IsArr(v) THEN Join(v.arr, <<",">>)
                  ELSE IF v = Null THEN <<"null">>
                  ELSE <<"undefined">>


-----------------------------------------------------------------------------
(* Exceptions and results of evaluating code that may throw *)

Exception(name, message) == [name |-> name, message |-> message]

Throw(e) == [error |-> e]

Return(v) == [value |-> v]

Threw(r) == DOMAIN r = {"error"}

\* Reading a property of undefined or null: a TypeError (message as V8 words it)
ReadError(v, prop) ==
    Exception("TypeError",
              <<"Cannot read properties of ">> \o Interpolate(v)
                  \o <<" (reading '", prop, "')">>)

-----------------------------------------------------------------------------
(* The response body and JSON.parse *)

\* The properties of a parsed object that the script reads
Props == {"error", "match_score", "summary", "missing_keywords",
          "tailoring_suggestions", "ats_score", "strengths", "feedback",
          "job_suggestions"}

Obj(props) == [obj |-> props]

IsObj(v) == DOMAIN v = {"obj"}

\* A body that is not JSON, and a body that is the JSON text of value json
NotJson == [valid |-> FALSE, json |-> Undefined]

JsonText(json) == [valid |-> TRUE, json |-> json]

\* JSON.parse(rawText)
JsonParse(rawText) ==
    IF rawText.valid THEN Return(rawText.json)
    ELSE Throw(Exception("SyntaxError", <<"Unexpected token in JSON">>))

\* v.prop
Get(v, prop) == v.obj[prop]

-----------------------------------------------------------------------------
(* encodeURIComponent, character by character *)

Unreserved == {"Q", "A", "R", "D", "-", "_", "."}

LoneSurrogate == "\\uD800"

PercentEncoded(c) == CASE c = " " -> "%20"
                       [] c = "&" -> "%26"
                       [] c = "+" -> "%2B"
                       [] c = "%" -> "%25"
                       [] c = "=" -> "%3D"
                       [] c = "?" -> "%3F"
                       [] c = "/" -> "%2F"
                       [] c = "#" -> "%23"

EncodeChar(c) == IF c \in Unreserved THEN c ELSE PercentEncoded(c)

HasLoneSurrogate(s) == \E i \in 1..Len(s) : s[i] = LoneSurrogate

\* encodeURIComponent(s) for a string without lone surrogates
encodeURIComponent(s) == [i \in 1..Len(s) |-> EncodeChar(s[i])]

-----------------------------------------------------------------------------
(* The HTML the submit handler builds.  innerHTML is modelled as the        *)
(* sequence of elements the template yields, each a record of its tag and  *)
(* its text content.                                                       *)

H2(text) == [tag |-> "h2", text |-> text]

H3Score(label, score) == [tag |-> "h3", text |-> label,
                          span |-> Interpolate(score) \o <<"/100">>]

H4(text) == [tag |-> "h4", text |-> text]

P(text) == [tag |-> "p", text |-> text]

UL(items) == [tag |-> "ul", li |-> items]

\* array.map(item => `<li>${item}</li>`)
ListItems(a) == [i \in 1..Len(a) |-> a[i]]

LinkedinUrl(role) ==
    <<"https://www.linkedin.com/jobs/search/?keywords=">>
        \o encodeURIComponent(role) \o <<"&location=India">>

\* `<li>${role} - <a href="${linkedinUrl}" target="_blank">Search on LinkedIn</a></li>`
JobItem(role) == [text |-> role \o <<" - ">>, href |-> LinkedinUrl(role),
                  target |-> "_blank", a |-> <<"Search on LinkedIn">>]

JobItems(a) == [i \in 1..Len(a) |-> JobItem(a[i])]

Heading == H2(<<"Analysis Complete!">>)

MatchScoreHtml(analysis) == H3Score(<<"Match Score: ">>, Get(analysis, "match_score"))

SummaryHtml(analysis) ==
    P(Interpolate(OrElse(Get(analysis, "summary"),
        Str(<<"A summary of how well your resume matches the job description.">>))))

MissingKeywordsHtml(analysis) ==
    P(Interpolate(OrElse(Str(Join(Get(analysis, "missing_keywords").arr, <<", ">>)),
        Str(<<"Great job, no critical keywords seem to be missing!">>))))

TailoringHtml(analysis) == UL(ListItems(Get(analysis, "tailoring_suggestions").arr))

\* The match-analysis template (lines 63-70); evaluation is left to right and
\* the first property read that fails throws
MatchTemplate(analysis) ==
    IF ~IsArr(Get(analysis, "missing_keywords"))
    THEN Throw(ReadError(Get(analysis, "missing_keywords"), "join"))
    ELSE IF ~IsArr(Get(analysis, "tailoring_suggestions"))
    THEN Throw(ReadError(Get(analysis, "tailoring_suggestions"), "map"))
    ELSE Return(<<Heading,
                  MatchScoreHtml(analysis),
                  SummaryHtml(analysis),
                  H4(<<"Missing Keywords:">>),
                  MissingKeywordsHtml(analysis),
                  H4(<<"Tailoring Suggestions:">>),
                  TailoringHtml(analysis)>>)

AtsScoreHtml(analysis) ==
    H3Score(<<"ATS Score: ">>, OrElse(Get(analysis, "ats_score"), Str(<<"N/A">>)))

StrengthsHtml(analysis) == UL(ListItems(Get(analysis, "strengths").arr))

FeedbackHtml(analysis) == UL(ListItems(Get(analysis, "feedback").arr))

JobSuggestionsHtml(analysis) == UL(JobItems(Get(analysis, "job_suggestions").arr))

\* The general-analysis template (lines 73-84)
GeneralTemplate(analysis) ==
    IF ~IsArr(Get(analysis, "strengths"))
    THEN Throw(ReadError(Get(analysis, "strengths"), "map"))
    ELSE IF ~IsArr(Get(analysis, "feedback"))
    THEN Throw(ReadError(Get(analysis, "feedback"), "map"))
    ELSE IF ~IsArr(Get(analysis, "job_suggestions"))
    THEN Throw(ReadError(Get(analysis, "job_suggestions"), "map"))
    ELSE IF \E i \in 1..Len(Get(analysis, "job_suggestions").arr) :
                HasLoneSurrogate(Get(analysis, "job_suggestions").arr[i])
    THEN Throw(Exception("URIError", <<"URI malformed">>))
    ELSE Return(<<Heading,
                  AtsScoreHtml(analysis),
                  H4(<<"Strengths:">>),
                  StrengthsHtml(analysis),
                  H4(<<"Feedback for Improvement:">>),
                  FeedbackHtml(analysis),
                  H4(<<"Suggested Job Roles:">>),
                  JobSuggestionsHtml(analysis)>>)

\* Mutant: the branch tests the truthiness of match_score
HasTruthyMatchScore(analysis) == ~Falsy(Get(analysis, "match_score"))

\* analysis.match_score !== undefined
HasMatchScore(analysis) == Get(analysis, "match_score") # Undefined

\* Lines 57-86: parse the body of an ok response and build htmlContent
RenderSuccess(rawText) ==
    LET parsed == JsonParse(rawText) IN
    IF Threw(parsed) THEN parsed
    ELSE IF ~IsObj(parsed.value) THEN Throw(ReadError(parsed.value, "match_score"))
    ELSE IF HasMatchScore(parsed.value) THEN MatchTemplate(parsed.value)
    ELSE GeneralTemplate(parsed.value)

\* Lines 47-49: the inner try block; every path through it throws
InnerTry(rawText) ==
    LET errorData == JsonParse(rawText) IN
    IF Threw(errorData) THEN errorData.error
    ELSE IF ~IsObj(errorData.value) THEN ReadError(errorData.value, "error")
    ELSE Exception("Error",
            Interpolate(OrElse(Get(errorData.value, "error"),
                               Str(<<"Something went wrong on the server.">>))))

\* Mutant: the inner catch rethrows what it caught
InnerCatchRethrows(e, status, statusText) == e

\* Lines 50-53: the inner catch receives whatever the inner try threw
InnerCatch(e, status, statusText) ==
    Exception("Error",
              <<"Server returned an error: ", ToString(status), " ">> \o statusText)

\* response.ok
Ok(status) == status >= 200 /\ status <= 299

\* Lines 45-86: from the body text to the end of the try block
TryBody(status, statusText, rawText) ==
    IF ~Ok(status) THEN Throw(InnerCatch(InnerTry(rawText), status, statusText))
    ELSE RenderSuccess(rawText)

ParseExplanation ==
    <<"There was a problem parsing the AI's response. This can happen with very large resumes. Please try again.">>

\* Mutant: the catch block tests `error instanceof Error`
ErrorMessageForAnyError(error) ==
    IF error.name \in {"Error", "SyntaxError", "TypeError", "URIError"}
    THEN ParseExplanation ELSE error.message

\* Lines 91-98
ErrorMessage(error) ==
    IF error.name = "SyntaxError" THEN ParseExplanation ELSE error.message

\* Lines 99-103
ErrorBox(errorMessage) ==
    <<[tag |-> "div", class |-> "error-box",
       h3 |-> <<"Analysis Failed">>,
       p1 |-> errorMessage,
       p2 |-> <<"Please try again with a different PDF file.">>]>>

\* Mutant: the catch block renders nothing
RenderedSwallowsErrors(r) == IF Threw(r) THEN << >> ELSE r.value

\* resultsDiv.innerHTML once the try/catch has run on result r
Rendered(r) == IF Threw(r) THEN ErrorBox(ErrorMessage(r.error)) ELSE r.value

-----------------------------------------------------------------------------
(* What the server and the user may supply *)

Items == {<<"sql">>, <<"aws">>}

Roles == {<<"Q", "A">>, <<"R", "&", "D", " ", "+">>, <<"D", LoneSurrogate>>}

\* The arrays of at most MaxItems elements of S
Lists(S) == UNION {[1..n -> S] : n \in 0..MaxItems}

ListValues(S) == {Undefined} \cup {Arr(a) : a \in Lists(S)}

NoProps == [p \in Props |-> Undefined]

MatchBodies ==
    {JsonText(Obj([NoProps EXCEPT !["match_score"] = score,
                                  !["summary"] = summary,
                                  !["missing_keywords"] = keywords,
                                  !["tailoring_suggestions"] = suggestions])) :
        score \in {Num(0), Num(57)},
        summary \in {Undefined, Str(<<"A close match.">>)},
        keywords \in ListValues(Items),
        suggestions \in ListValues(Items)}

GeneralBodies ==
    {JsonText(Obj([NoProps EXCEPT !["ats_score"] = score,
                                  !["strengths"] = strengths,
                                  !["feedback"] = feedback,
                                  !["job_suggestions"] = roles])) :
        score \in {Undefined, Num(0), Num(57)},
        strengths \in ListValues(Items),
        feedback \in ListValues(Items),
        roles \in ListValues(Roles)}

ErrorBodies ==
    {JsonText(Obj([NoProps EXCEPT !["error"] = error])) :
        error \in {Str(<< >>), Str(<<"No resume file provided">>)}}

Bodies == {NotJson, JsonText(Null)} \cup MatchBodies \cup GeneralBodies \cup ErrorBodies

\* response.status and response.statusText
StatusLines == {<<200, <<"OK">>>>, <<404, <<"Not Found">>>>, <<500, << >>>>}

FileNames == {<<"cv.pdf">>}

\* resumeInput.files: the input accepts no file or one
FileLists == {<< >>} \cup {<<name>> : name \in FileNames}

Placeholder == <<"No file chosen">>

-----------------------------------------------------------------------------
(* State *)

NoOutcome == [outcome |-> "none", status |-> 0, statusText |-> << >>,
              rawText |-> NotJson,
              formData |-> [resume |-> << >>]]

Init ==
    /\ loaderDisplay = "none"
    /\ formContainerDisplay = "block"
    /\ resultsDisplay = "none"
    /\ resultsHTML = << >>
    /\ analyzeAnotherDisplay = "none"
    /\ resumeFiles = << >>
    /\ fileNameDisplay = Placeholder
    /\ pending = << >>
    /\ posts = 0
    /\ submits = 0
    /\ last = NoOutcome
    /\ lastEvent = "load"

Remove(seq, i) == [j \in 1..(Len(seq) - 1) |-> IF j < i THEN seq[j] ELSE seq[j + 1]]

-----------------------------------------------------------------------------
(* Handlers *)

\* Lines 13-19: the file input's change event.  The user can reach the
\* input only while its container is displayed.
FileChange(files) ==
    /\ formContainerDisplay = "block"
    /\ files # resumeFiles
    /\ resumeFiles' = files
    /\ fileNameDisplay' = IF Len(files) > 0 THEN files[1] ELSE Placeholder
    /\ lastEvent' = "change"
    /\ UNCHANGED <<loaderDisplay, formContainerDisplay, resultsDisplay, resultsHTML,
                   analyzeAnotherDisplay, pending, posts, submits, last>>

\* new FormData(form)
FormData == [resume |-> resumeFiles]

\* The request fetch('/analyze', {method: 'POST', body: formData}) leaves pending
Fetch(formData) == [formData |-> formData, stage |-> "fetch",
                    status |-> 0, statusText |-> << >>]

\* Mutant: line 32 is missing, the previous results stay in the container
SubmitUiUpdatesKeepsResults ==
    /\ loaderDisplay' = "block"
    /\ formContainerDisplay' = "none"
    /\ resultsDisplay' = "none"
    /\ UNCHANGED resultsHTML

\* Mutant: line 30 is missing, the form stays on screen
SubmitUiUpdatesKeepsForm ==
    /\ loaderDisplay' = "block"
    /\ UNCHANGED formContainerDisplay
    /\ resultsDisplay' = "none"
    /\ resultsHTML' = << >>

\* Lines 29-32
SubmitUiUpdates ==
    /\ loaderDisplay' = "block"
    /\ formContainerDisplay' = "none"
    /\ resultsDisplay' = "none"
    /\ resultsHTML' = << >>

\* The requests a submit handler issues before it first suspends
SubmitFetches == <<Fetch(FormData)>>

\* Lines 23-36: the submit event up to the first await.  The user can submit
\* the form only while its container is displayed.
Submit ==
    /\ formContainerDisplay = "block"
    /\ submits < MaxSubmissions
    /\ SubmitUiUpdates
    /\ pending' = pending \o SubmitFetches
    /\ posts' = posts + Len(SubmitFetches)
    /\ submits' = submits + 1
    /\ last' = NoOutcome
    /\ lastEvent' = "submit"
    /\ UNCHANGED <<analyzeAnotherDisplay, resumeFiles, fileNameDisplay>>

\* Line 36 resumes with a response; the handler suspends again at line 42
FetchResolves(i, statusLine) ==
    /\ pending[i].stage = "fetch"
    /\ pending' = [pending EXCEPT ![i] = [@ EXCEPT !.stage = "text",
                                                   !.status = statusLine[1],
                                                   !.statusText = statusLine[2]]]
    /\ lastEvent' = "response"
    /\ UNCHANGED <<loaderDisplay, formContainerDisplay, resultsDisplay, resultsHTML,
                   analyzeAnotherDisplay, resumeFiles, fileNameDisplay,
                   posts, submits, last>>

\* Mutant: line 107 is missing, the loader stays on screen
FinallyKeepsLoader ==
    /\ UNCHANGED loaderDisplay
    /\ resultsDisplay' = "block"
    /\ analyzeAnotherDisplay' = "block"

\* Lines 104-110
Finally ==
    /\ loaderDisplay' = "none"
    /\ resultsDisplay' = "block"
    /\ analyzeAnotherDisplay' = "block"

\* The handler of pending[i] runs from its await to its end with the try
\* block's result r: lines 86 or 88-103, then finally
Settle(i, r, outcome) ==
    /\ resultsHTML' = Rendered(r)
    /\ Finally
    /\ pending' = Remove(pending, i)
    /\ last' = [outcome |-> outcome, status |-> pending[i].status,
                statusText |-> pending[i].statusText,
                rawText |-> NotJson, formData |-> pending[i].formData]
    /\ lastEvent' = "settled"
    /\ UNCHANGED <<formContainerDisplay, resumeFiles, fileNameDisplay, posts, submits>>

\* Line 36: fetch rejects (the network failed)
FetchRejects(i) ==
    /\ pending[i].stage = "fetch"
    /\ Settle(i, Throw(Exception("TypeError", <<"Failed to fetch">>)), "fetchRejected")

\* Line 42: reading the body rejects
TextRejects(i) ==
    /\ pending[i].stage = "text"
    /\ Settle(i, Throw(Exception("TypeError", <<"network error">>)), "textRejected")

\* Line 42 resumes with the body text; lines 45-110 run to the end
TextResolves(i, rawText) ==
    /\ pending[i].stage = "text"
    /\ resultsHTML' = Rendered(TryBody(pending[i].status, pending[i].statusText, rawText))
    /\ Finally
    /\ pending' = Remove(pending, i)
    /\ last' = [outcome |-> "response", status |-> pending[i].status,
                statusText |-> pending[i].statusText,
                rawText |-> rawText, formData |-> pending[i].formData]
    /\ lastEvent' = "settled"
    /\ UNCHANGED <<formContainerDisplay, resumeFiles, fileNameDisplay, posts, submits>>

\* form.reset(): the file input back to its default, no file
FormReset == resumeFiles' = << >>

\* Mutant: line 119 is missing; form.reset() fires no change event
AnalyzeAnotherKeepsFileName ==
    /\ analyzeAnotherDisplay = "block"
    /\ resultsDisplay' = "none"
    /\ analyzeAnotherDisplay' = "none"
    /\ FormReset
    /\ UNCHANGED fileNameDisplay
    /\ formContainerDisplay' = "block"
    /\ lastEvent' = "reset"
    /\ UNCHANGED <<loaderDisplay, resultsHTML, pending, posts, submits, last>>

\* Lines 115-121.  The user can click the button only while it is displayed.
AnalyzeAnother ==
    /\ analyzeAnotherDisplay = "block"
    /\ resultsDisplay' = "none"
    /\ analyzeAnotherDisplay' = "none"
    /\ FormReset
    /\ fileNameDisplay' = Placeholder
    /\ formContainerDisplay' = "block"
    /\ lastEvent' = "reset"
    /\ UNCHANGED <<loaderDisplay, resultsHTML, pending, posts, submits, last>>

Next ==
    \/ \E files \in FileLists : FileChange(files)
    \/ Submit
    \/ \E i \in 1..Len(pending), statusLine \in StatusLines : FetchResolves(i, statusLine)
    \/ \E i \in 1..Len(pending) : FetchRejects(i)
    \/ \E i \in 1..Len(pending) : TextRejects(i)
    \/ \E i \in 1..Len(pending), rawText \in Bodies : TextResolves(i, rawText)
    \/ AnalyzeAnother

Spec == Init /\ [][Next]_vars

-----------------------------------------------------------------------------
(* Reading the state for the properties below *)

\* The latest submission got a response and its body was read
Responded == last.outcome = "response"

\* The parsed body of that response, when it is JSON
Analysis == last.rawText.json

IsErrorBox(html) == /\ Len(html) = 1
                    /\ html[1].tag = "div"
                    /\ html[1].class = "error-box"

IsMatchRendering(html) == /\ Len(html) = 7
                          /\ html[1].tag = "h2"
                          /\ html[2].text = <<"Match Score: ">>

IsGeneralRendering(html) == /\ Len(html) = 8
                            /\ html[1].tag = "h2"
                            /\ html[2].text = <<"ATS Score: ">>

StatusText == <<"Server returned an error: ", ToString(last.status), " ">>
                  \o last.statusText

WellFormedMatch(a) == /\ IsObj(a)
                      /\ Get(a, "match_score") # Undefined
                      /\ IsArr(Get(a, "missing_keywords"))
                      /\ IsArr(Get(a, "tailoring_suggestions"))

WellFormedGeneral(a) ==
    /\ IsObj(a)
    /\ Get(a, "match_score") = Undefined
    /\ IsArr(Get(a, "strengths"))
    /\ IsArr(Get(a, "feedback"))
    /\ IsArr(Get(a, "job_suggestions"))
    /\ \A i \in 1..Len(Get(a, "job_suggestions").arr) :
          \A j \in 1..Len(Get(a, "job_suggestions").arr[i]) :
              Get(a, "job_suggestions").arr[i][j] # LoneSurrogate

\* What a URL parser makes of one token of a query string
QueryDecode(t) == CASE t = "%20" -> " "
                    [] t = "+" -> " "
                    [] t = "%26" -> "&"
                    [] t = "%2B" -> "+"
                    [] t = "%25" -> "%"
                    [] t = "%3D" -> "="
                    [] t = "%3F" -> "?"
                    [] t = "%2F" -> "/"
                    [] t = "%23" -> "#"
                    [] OTHER -> t

\* A token that ends the value of a query parameter
EndsParam(t) == t \in {"&", "#", "&location=India"}

\* The position where the first query parameter of href ends
FirstParamEnd(href) ==
    CHOOSE i \in 2..(Len(href) + 1) :
        /\ i = Len(href) + 1 \/ EndsParam(href[i])
        /\ \A j \in 2..(i - 1) : ~EndsParam(href[j])

\* The decoded value of the keywords parameter of a search link
KeywordsParam(href) ==
    [i \in 1..(FirstParamEnd(href) - 2) |-> QueryDecode(href[i + 1])]

\* href is a search for role, in India
SearchesFor(href, role) ==
    /\ href[1] = "https://www.linkedin.com/jobs/search/?keywords="
    /\ KeywordsParam(href) = role
    /\ FirstParamEnd(href) = Len(href)
    /\ href[Len(href)] = "&location=India"

\* text is the items of list (each a single token) in order, separated by ", "
ListsInOrder(text, list) ==
    /\ Len(text) = 2 * Len(list) - 1
    /\ \A i \in 1..Len(list) : text[2 * i - 1] = list[i][1]
    /\ \A i \in 1..(Len(list) - 1) : text[2 * i] = ", "

-----------------------------------------------------------------------------
(* Properties *)

\* C1: after a non-2xx response whose body is a JSON object with a non-empty
\* string `error`, the error box shows that string, not the status text.
C1_ErrorFieldIsRendered ==
    (/\ Responded
     /\ ~Ok(last.status)
     /\ last.rawText.valid
     /\ IsObj(Analysis)
     /\ IsStr(Get(Analysis, "error"))
     /\ Get(Analysis, "error").str # << >>)
    => /\ IsErrorBox(resultsHTML)
       /\ resultsHTML[1].p1 = Get(Analysis, "error").str

\* C2: right after a submission settles, whatever its outcome, the loader is
\* hidden and the results container and the "analyze another" button are shown.
C2_SettledShowsResults ==
    lastEvent = "settled"
    => /\ loaderDisplay = "none"
       /\ resultsDisplay = "block"
       /\ analyzeAnotherDisplay = "block"

\* A second submission has settled with an error box
C2_Witness ==
    /\ lastEvent = "settled"
    /\ submits = 2
    /\ last.outcome = "response"
    /\ Ok(last.status)
    /\ last.rawText.valid
    /\ IsErrorBox(resultsHTML)

\* C3: after a non-2xx response whose body is not JSON, the error box shows
\* "Server returned an error: <status> <statusText>" and not the parsing
\* explanation.
C3_StatusMessage ==
    (Responded /\ ~Ok(last.status) /\ ~last.rawText.valid)
    => /\ IsErrorBox(resultsHTML)
       /\ resultsHTML[1].p1 = StatusText
       /\ resultsHTML[1].p1 # ParseExplanation

C3_Witness ==
    /\ Responded
    /\ last.status = 404
    /\ ~last.rawText.valid
    /\ resultsHTML[1].p1 = <<"Server returned an error: ", "404", " ", "Not Found">>

\* C4: after a 2xx response whose body is not JSON the error box shows the
\* fixed parsing explanation, and whenever the results show that explanation
\* the latest submission got a 2xx response whose body is not JSON.
C4_ParseExplanation ==
    /\ (Responded /\ Ok(last.status) /\ ~last.rawText.valid)
       => (IsErrorBox(resultsHTML) /\ resultsHTML[1].p1 = ParseExplanation)
    /\ (IsErrorBox(resultsHTML) /\ resultsHTML[1].p1 = ParseExplanation)
       => (Responded /\ Ok(last.status) /\ ~last.rawText.valid)

\* A 2xx body that is not JSON has been rendered, as has each other failure
C4_Witness ==
    /\ Responded
    /\ Ok(last.status)
    /\ ~last.rawText.valid
    /\ resultsHTML[1].p1 = ParseExplanation

\* The lists of a well-formed general analysis are all shown, in order, each
\* suggested role with its search link
GeneralListsShown ==
    (Responded /\ Ok(last.status) /\ last.rawText.valid /\ WellFormedGeneral(Analysis))
    => /\ IsGeneralRendering(resultsHTML)
       /\ resultsHTML[4].li = Get(Analysis, "strengths").arr
       /\ resultsHTML[6].li = Get(Analysis, "feedback").arr
       /\ Len(resultsHTML[8].li) = Len(Get(Analysis, "job_suggestions").arr)
       /\ \A i \in 1..Len(resultsHTML[8].li) :
             LET role == Get(Analysis, "job_suggestions").arr[i] IN
             /\ SubSeq(resultsHTML[8].li[i].text, 1, Len(role)) = role
             /\ SearchesFor(resultsHTML[8].li[i].href, role)

\* The score a general rendering shows is ats_score when the response has
\* one, 0 included, and "N/A" only when it has none
AtsScoreShown ==
    (Responded /\ Ok(last.status) /\ last.rawText.valid /\ WellFormedGeneral(Analysis))
    => /\ IsGeneralRendering(resultsHTML)
       /\ resultsHTML[2].span =
             IF Get(Analysis, "ats_score") = Undefined
             THEN <<"N/A", "/100">>
             ELSE <<ToString(Get(Analysis, "ats_score").num), "/100">>

\* C5: for a successful response without match_score (with the lists the
\* general template reads), the rendering shows ats_score whenever it is
\* present, 0 included, "N/A" only when it is absent, and every strength,
\* feedback item and suggested role in order, each role with its search link.
C5_GeneralAnalysisShown == AtsScoreShown /\ GeneralListsShown


\* A well-formed match analysis is shown in full: its score, its missing
\* keywords in order and its tailoring suggestions in order
MatchAnalysisShown ==
    (Responded /\ Ok(last.status) /\ last.rawText.valid /\ WellFormedMatch(Analysis))
    => /\ IsMatchRendering(resultsHTML)
       /\ resultsHTML[2].span = <<ToString(Get(Analysis, "match_score").num), "/100">>
       /\ Get(Analysis, "missing_keywords").arr # << >>
          => ListsInOrder(resultsHTML[5].text, Get(Analysis, "missing_keywords").arr)
       /\ resultsHTML[7].li = Get(Analysis, "tailoring_suggestions").arr

\* C6 as stated: for every 2xx response with a JSON body the match template
\* is rendered iff match_score is present, the general template otherwise.
C6_TemplateForEveryJsonBody ==
    (Responded /\ Ok(last.status) /\ last.rawText.valid)
    => /\ IsMatchRendering(resultsHTML)
          <=> (IsObj(Analysis) /\ Get(Analysis, "match_score") # Undefined)
       /\ ~(IsObj(Analysis) /\ Get(Analysis, "match_score") # Undefined)
          => IsGeneralRendering(resultsHTML)
       /\ MatchAnalysisShown

\* C6, amended: for every 2xx response whose body is a JSON object, match_score
\* present (0 included) selects the match template and its absence the general
\* template; the selected template is rendered when the object has the lists
\* that template reads, and an error box is rendered instead when it lacks
\* one; a rendered well-formed match analysis shows its score, keywords and
\* suggestions in order.
C6_TemplateByMatchScore ==
    (Responded /\ Ok(last.status) /\ last.rawText.valid /\ IsObj(Analysis))
    => /\ WellFormedMatch(Analysis) => IsMatchRendering(resultsHTML)
       /\ WellFormedGeneral(Analysis) => IsGeneralRendering(resultsHTML)
       /\ IsMatchRendering(resultsHTML) => Get(Analysis, "match_score") # Undefined
       /\ IsGeneralRendering(resultsHTML) => Get(Analysis, "match_score") = Undefined
       /\ ~(WellFormedMatch(Analysis) \/ WellFormedGeneral(Analysis))
          => IsErrorBox(resultsHTML)
       /\ MatchAnalysisShown

\* A match analysis whose score is 0 has been rendered with two keywords
C6_Witness ==
    /\ Responded
    /\ Ok(last.status)
    /\ last.rawText.valid
    /\ WellFormedMatch(Analysis)
    /\ Get(Analysis, "match_score") = Num(0)
    /\ Len(Get(Analysis, "missing_keywords").arr) = 2
    /\ Get(Analysis, "missing_keywords").arr[1] # Get(Analysis, "missing_keywords").arr[2]
    /\ IsMatchRendering(resultsHTML)

\* C7: the "analyze another" click hides the results container and the
\* button, shows the form, clears the file field and restores the placeholder
\* "No file chosen"; it leaves the loader as it was.
C7_ResetRestoresForm ==
    [][lastEvent' = "reset"
       => /\ resultsDisplay' = "none"
          /\ analyzeAnotherDisplay' = "none"
          /\ formContainerDisplay' = "block"
          /\ resumeFiles' = << >>
          /\ fileNameDisplay' = <<"No file chosen">>
          /\ loaderDisplay' = loaderDisplay]_vars

\* Reset has run after a submission that carried a file
C7_Witness ==
    /\ lastEvent = "reset"
    /\ last.outcome # "none"
    /\ last.formData.resume # << >>
    /\ resumeFiles = << >>
    /\ fileNameDisplay = <<"No file chosen">>

\* The latest submission failed: the request or the body read was rejected,
\* the status was not 2xx, the 2xx body was not JSON, or the 2xx JSON body
\* lacks what its template reads
Failed ==
    \/ last.outcome \in {"fetchRejected", "textRejected"}
    \/ /\ Responded
       /\ \/ ~Ok(last.status)
          \/ ~last.rawText.valid
          \/ ~(WellFormedMatch(Analysis) \/ WellFormedGeneral(Analysis))

\* C8: every failed submission ends with an error box holding a message and
\* with the reset button shown; clicking it shows the form, where a new
\* submission can be made, and every submission issues a new request.
C8_FailuresAreShownAndRetryable ==
    /\ [](Failed => /\ IsErrorBox(resultsHTML)
                    /\ resultsHTML[1].p1 # << >>)
    /\ []((Failed /\ lastEvent = "settled") => ENABLED AnalyzeAnother)
    /\ []((lastEvent = "reset" /\ submits < MaxSubmissions) => ENABLED Submit)
    /\ [][lastEvent' = "submit"
          => /\ posts' = posts + 1
             /\ Len(pending') = Len(pending) + 1
             /\ pending'[Len(pending')].stage = "fetch"]_vars

\* A 2xx JSON body lacking a list its template reads ended in the error box,
\* and reset has brought the form back for a new submission
C8_Witness ==
    /\ lastEvent = "reset"
    /\ Failed
    /\ Responded
    /\ Ok(last.status)
    /\ last.rawText.valid
    /\ IsErrorBox(resultsHTML)
    /\ formContainerDisplay = "block"
    /\ ENABLED Submit

\* C9: while a submission's request is pending the loader is shown, the form
\* and the results container are hidden and the results container is empty.
C9_PendingHidesEverything ==
    pending # << >>
    => /\ loaderDisplay = "block"
       /\ formContainerDisplay = "none"
       /\ resultsDisplay = "none"
       /\ resultsHTML = << >>

\* The second submission's request is pending, its response headers received
C9_Witness ==
    /\ submits = 2
    /\ Len(pending) = 1
    /\ pending[1].stage = "text"

\* C10: at most one request is pending, the loader is shown exactly while one
\* is, the reset button is hidden while one is, the form and the results
\* container are never both shown, and every submission has issued exactly
\* one POST.
C10_SingleRequest ==
    /\ Len(pending) <= 1
    /\ loaderDisplay = "block" <=> pending # << >>
    /\ pending # << >> => analyzeAnotherDisplay = "none"
    /\ ~(formContainerDisplay = "block" /\ resultsDisplay = "block")
    /\ posts = submits

\* Two submissions have been made and the second has settled
C10_Witness ==
    /\ posts = 2
    /\ submits = 2
    /\ pending = << >>
    /\ resultsDisplay = "block"

=============================================================================
